---- MODULE Spec2Model ----
(***************************************************************************)
(* Model of the client-side analysis module of f152z                       *)
(* (static/js/analysis.js together with the shared state of js/state.js):  *)
(* the mouse-trajectory comparison (stroke extraction, normalisation, DTW, *)
(* similarity scoring), its orchestration over the selected sessions, and  *)
(* the browser-fingerprint grouping.                                       *)
(*                                                                         *)
(* Numbers.  JavaScript numbers are IEEE doubles; here a real is kept in   *)
(* fixed point with FP steps per unit, rounded down.  Raw coordinates and  *)
(* timestamps are integers (pixels, milliseconds).  Normalised coordinates *)
(* and DTW distances are counted in 1/FP units, similarities in 1/FP of a  *)
(* percent.  Comparisons of timestamps are done on exact rationals.        *)
(***************************************************************************)
EXTENDS Integers, Sequences, FiniteSets, TLC

VARIABLES
    \* one scoring of a pair of trajectories
    trajA, trajB,   \* the arguments of compareMouseTrajectories
    strokeA, strokeB,           \* what extractInitialStroke returns for them
    normA, normB,               \* normP1, normP2: the strokes normalised
    similarityAB, similarityBA, \* the similarity returned in either argument order
    step,
    \* the contrast boost applied to two similarities
    similarity1, similarity2,   \* similarity before the boost
    boosted1, boosted2,         \* what compareMouseTrajectories returns for it
    bstep,
    \* one trajectory scored before and after it is moved or resized
    original, moved,            \* the trajectory and its transformed copy
    other,                      \* the trajectory both are compared with
    normOriginal, normMoved,    \* the normalised strokes of the two
    simOriginal, simMoved,      \* their similarities to other
    mstep,
    \* one call of fastDTW
    seqA, seqB,                 \* its arguments
    dtwAB,                      \* what it returns
    wstep,
    \* the DTW report of js/ui.js
    mouseThreshold,             \* settings.mouseThreshold
    suspicious,                 \* DTW_THRESHOLDS.SUSPICIOUS
    dtwResults,                 \* the argument of renderDtwResults
    cards,                      \* the result cards it writes
    containerText,              \* what else the container shows
    rlast,                      \* the operation of the report that ran last
    \* one call of runClientDtwAnalysis
    selectedResults,            \* its argument
    analysisData,               \* the object it builds and returns
    returned,                   \* what compareMouseTrajectories returned to it
    pc,
    \* js/state.js and the fingerprint analysis
    serverResults,              \* the results the backend holds, in its order
    currentPageResults,
    allLoadedResults,           \* the Map's values, in insertion order
    settings,
    fingerprintGroups,
    lastOp,                     \* the operation that ran last
    \* one call of APIClient.safeFetch and of the method that called it
    caller,                     \* the method that calls safeFetch
    attempt,                    \* the loop variable of safeFetch
    fetches,                    \* how often fetch was called
    waited,                     \* the timeouts awaited, in milliseconds
    fetchErrors,                \* the errors caught, in order
    settled,                    \* what the promise of safeFetch settled with
    callerResult,               \* what the caller returned
    qpc,                        \* where the call is
    \* overlapping calls of loadInitialData
    currentPage,                \* currentPage of js/state.js
    requests                    \* the calls of loadInitialData, in the order they were made

\* ------------------------------------------------------------------ bounds
FP == 10            \* fixed-point steps per unit
MaxLen == 11        \* longest generated trajectory (points)
CoordScale == 2     \* steps per pixel of a raw coordinate

\* --------------------------------------------------------- program constants
MIN_STROKE_POINTS == 10     \* stroke1.length < 10
PAUSE_THRESHOLD_MS == 250   \* PAUSE_THRESHOLD_SEC = 0.25, in milliseconds
NORM_SIDE == 1000           \* side of the normalisation square
BOOST_FROM == 80            \* similarity > 80
HIGH_SIMILARITY == 70       \* DTW_THRESHOLDS.HIGH_SIMILARITY
DEFAULT_MOUSE_THRESHOLD == 85   \* settings.mouseThreshold as state.js sets it
MAX_ATTEMPTS == 3            \* for (let attempt = 0; attempt < 3; attempt++)
MAX_SIMILARITY == 100       \* Math.min(100, similarity)

Infinity == 2000000000      \* stands for the double +Infinity

\* --------------------------------------------------------------- arithmetic
Min2(a, b) == IF a <= b THEN a ELSE b
Max2(a, b) == IF a >= b THEN a ELSE b

\* A minimum that leaves the diagonal neighbour dtw[i-1][j-1] out
MathMin3NoDiagonal(a, b, c) == Min2(a, b)

\* Math.min(a, b, c)
MathMin3(a, b, c) == Min2(a, Min2(b, c))

\* Math.sqrt of an integer 0 <= n < 2^30, rounded down: the root is found one
\* base-8 digit at a time, w being the weight of the digit looked for.
RECURSIVE SqrtIter(_, _, _)
SqrtIter(n, lo, w) ==
    LET d == CHOOSE k \in 0..7 :
                 /\ (lo + k * w) * (lo + k * w) <= n
                 /\ (k = 7 \/ (lo + (k + 1) * w) * (lo + (k + 1) * w) > n)
    IN  IF w = 1 THEN lo + d ELSE SqrtIter(n, lo + d * w, w \div 8)

MathSqrt(n) == SqrtIter(n, 0, 4096)

\* Math.min(...xs) / Math.max(...xs) over a non-empty sequence
SeqMin(xs) == CHOOSE v \in {xs[k] : k \in 1..Len(xs)} : \A k \in 1..Len(xs) : v <= xs[k]
SeqMax(xs) == CHOOSE v \in {xs[k] : k \in 1..Len(xs)} : \A k \in 1..Len(xs) : v >= xs[k]

\* x + y where either may be Infinity
AddInf(x, y) == IF x >= Infinity \/ y >= Infinity THEN Infinity ELSE x + y

\* ------------------------------------------------------------ dtwAnalysis
\* euclideanDistance(point1, point2): points are <<x, y>> in 1/FP units,
\* the distance is in 1/FP units
euclideanDistance(point1, point2) ==
    MathSqrt((point1[1] - point2[1]) * (point1[1] - point2[1])
           + (point1[2] - point2[2]) * (point1[2] - point2[2]))

\* A recurrence that leaves the neighbour dtw[i-1][j] out
DtwCellOneSided(sequence1, sequence2, i, j, prev, cur) ==
    LET cost == euclideanDistance(sequence1[i], sequence2[j])
    IN  AddInf(cost, Min2(cur[j], prev[j]))

\* dtw[i][j] = cost + Math.min(dtw[i-1][j], dtw[i][j-1], dtw[i-1][j-1]);
\* prev is the row dtw[i-1], cur holds dtw[i][0..j-1], both at positions
\* shifted by one.
DtwCell(sequence1, sequence2, i, j, prev, cur) ==
    LET cost == euclideanDistance(sequence1[i], sequence2[j])
    IN  AddInf(cost, MathMin3(prev[j + 1], cur[j], prev[j]))

\* The inner loop, from the column j = Len(cur) that comes next up to the
\* column hi.  The iterations are run as two halves, one after the other,
\* which keeps the evaluation shallow.
RECURSIVE DtwCells(_, _, _, _, _, _)
DtwCells(sequence1, sequence2, i, prev, hi, cur) ==
    LET j == Len(cur)
    IN  IF j > hi THEN cur
        ELSE IF j = hi THEN Append(cur, DtwCell(sequence1, sequence2, i, j, prev, cur))
        ELSE DtwCells(sequence1, sequence2, i, prev, hi,
                      DtwCells(sequence1, sequence2, i, prev, (j + hi) \div 2, cur))

\* The outer loop, from the row i = Len(dtw) that comes next up to the row
\* hi; dtw holds the finished rows.  A row starts with dtw[i][0] = Infinity.
RECURSIVE DtwRows(_, _, _, _)
DtwRows(sequence1, sequence2, hi, dtw) ==
    LET i == Len(dtw)
    IN  IF i > hi THEN dtw
        ELSE IF i = hi
             THEN Append(dtw, DtwCells(sequence1, sequence2, i, dtw[i],
                                       Len(sequence2), <<Infinity>>))
        ELSE DtwRows(sequence1, sequence2, hi,
                     DtwRows(sequence1, sequence2, (i + hi) \div 2, dtw))

\* A matrix whose dtw[0][0] was left at Infinity
fastDTWNoOrigin(sequence1, sequence2) ==
    LET n    == Len(sequence1)
        m    == Len(sequence2)
        row0 == [j \in 1..(m + 1) |-> Infinity]
    IN  DtwRows(sequence1, sequence2, n, <<row0>>)[n + 1][m + 1]

\* fastDTW(sequence1, sequence2) = dtw[n][m]
fastDTW(sequence1, sequence2) ==
    LET n    == Len(sequence1)
        m    == Len(sequence2)
        row0 == [j \in 1..(m + 1) |-> IF j = 1 THEN 0 ELSE Infinity]
    IN  DtwRows(sequence1, sequence2, n, <<row0>>)[n + 1][m + 1]

\* A loop that also returns at a delta of exactly the threshold
PauseAtInclusive(trajectory) ==
    {i \in 2..Len(trajectory) :
        trajectory[i][3] - trajectory[i - 1][3] >= PAUSE_THRESHOLD_MS}

\* The indices i (counted from 1, so 2..length) at which the loop of
\* extractInitialStroke returns if it gets there: (t_i - t_{i-1}) / 1000.0
\* > 0.25, decided exactly as t_i - t_{i-1} > 250.
PauseAt(trajectory) ==
    {i \in 2..Len(trajectory) :
        trajectory[i][3] - trajectory[i - 1][3] > PAUSE_THRESHOLD_MS}

\* extractInitialStroke(trajectory): the loop returns at the first such index
extractInitialStroke(trajectory) ==
    IF Len(trajectory) < 2 THEN trajectory
    ELSE IF PauseAt(trajectory) = {} THEN trajectory
    ELSE LET i == CHOOSE k \in PauseAt(trajectory) : \A l \in PauseAt(trajectory) : k <= l
         IN  SubSeq(trajectory, 1, i - 1)

\* A shift of the bounding box to the origin without the rescaling
normalizeUnscaled(points) ==
    LET xs == [k \in 1..Len(points) |-> points[k][1]]
        ys == [k \in 1..Len(points) |-> points[k][2]]
    IN  [k \in 1..Len(points) |->
            << (FP * (points[k][1] - SeqMin(xs))) \div CoordScale,
               (FP * (points[k][2] - SeqMin(ys))) \div CoordScale >>]

\* A rescaling that forgets to move the bounding box to the origin
normalizeUnshifted(points) ==
    LET xs == [k \in 1..Len(points) |-> points[k][1]]
        ys == [k \in 1..Len(points) |-> points[k][2]]
        rangeX == IF SeqMax(xs) - SeqMin(xs) = 0 THEN CoordScale ELSE SeqMax(xs) - SeqMin(xs)
        rangeY == IF SeqMax(ys) - SeqMin(ys) = 0 THEN CoordScale ELSE SeqMax(ys) - SeqMin(ys)
    IN  [k \in 1..Len(points) |->
            << (NORM_SIDE * FP * points[k][1]) \div rangeX,
               (NORM_SIDE * FP * points[k][2]) \div rangeY >>]

\* normalize(points): points are <<x, y>> in 1/CoordScale pixels, the result
\* is in 1/FP units; `maxX - minX || 1` is 1 pixel when the range is 0
normalize(points) ==
    LET xs == [k \in 1..Len(points) |-> points[k][1]]
        ys == [k \in 1..Len(points) |-> points[k][2]]
        minX == SeqMin(xs)
        maxX == SeqMax(xs)
        minY == SeqMin(ys)
        maxY == SeqMax(ys)
        rangeX == IF maxX - minX = 0 THEN CoordScale ELSE maxX - minX
        rangeY == IF maxY - minY = 0 THEN CoordScale ELSE maxY - minY
    IN  [k \in 1..Len(points) |->
            << (NORM_SIDE * FP * (points[k][1] - minX)) \div rangeX,
               (NORM_SIDE * FP * (points[k][2] - minY)) \div rangeY >>]

\* A greatest distance that forgets the number of points
maxPossibleDistOfOnePoint(len1, len2) ==
    MathSqrt(2 * NORM_SIDE * NORM_SIDE * FP * FP)

\* maxPossibleDist = 1000 * Math.sqrt(2) * Math.max(normP1.length, normP2.length)
maxPossibleDist(len1, len2) ==
    MathSqrt(2 * NORM_SIDE * NORM_SIDE * FP * FP) * Max2(len1, len2)

\* (1 - normalizedDistance) * 100, before Math.max(0, ...): an infinite
\* distance gives -Infinity, modelled as -1
rawSimilarity(distance, len1, len2) ==
    IF maxPossibleDist(len1, len2) > 0 /\ distance < Infinity
    THEN MAX_SIMILARITY * FP
             - (MAX_SIMILARITY * FP * distance) \div maxPossibleDist(len1, len2)
    ELSE IF maxPossibleDist(len1, len2) > 0 THEN -1 ELSE 0

\* A boost that scales the whole similarity, not its part above 80
contrastBoostWhole(similarity) ==
    Min2(MAX_SIMILARITY * FP,
         IF similarity > BOOST_FROM * FP THEN (similarity * 3) \div 2 ELSE similarity)

\* if (similarity > 80) similarity = 80 + (similarity - 80) * 1.5;
\* return Math.min(100, similarity);                       (1/FP percent)
contrastBoost(similarity) ==
    Min2(MAX_SIMILARITY * FP,
         IF similarity > BOOST_FROM * FP
         THEN BOOST_FROM * FP + ((similarity - BOOST_FROM * FP) * 3) \div 2
         ELSE similarity)

\* A scoring tail without the final Math.min(100, similarity)
similarityOfUnclamped(distance, len1, len2) ==
    LET similarity == Max2(0, rawSimilarity(distance, len1, len2))
    IN  IF similarity > BOOST_FROM * FP
        THEN BOOST_FROM * FP + ((similarity - BOOST_FROM * FP) * 3) \div 2
        ELSE similarity

\* The scoring tail of compareMouseTrajectories, from the DTW distance (1/FP
\* units) to the returned similarity (1/FP percent).
similarityOf(distance, len1, len2) ==
    contrastBoost(Max2(0, rawSimilarity(distance, len1, len2)))

\* normalize(stroke.map(p => [p[0], p[1]]))
NormalizedStroke(stroke) ==
    normalize([k \in 1..Len(stroke) |-> <<stroke[k][1], stroke[k][2]>>])

\* A comparison whose length test looks at the raw trajectories
compareRawLengths(trajectory1, trajectory2) ==
    LET stroke1 == extractInitialStroke(trajectory1)
        stroke2 == extractInitialStroke(trajectory2)
    IN  IF Len(trajectory1) < MIN_STROKE_POINTS \/ Len(trajectory2) < MIN_STROKE_POINTS
        THEN 0
        ELSE similarityOf(fastDTW(NormalizedStroke(stroke1), NormalizedStroke(stroke2)),
                          Len(stroke1), Len(stroke2))

\* compareMouseTrajectories(trajectory1, trajectory2), in 1/FP percent
compareMouseTrajectories(trajectory1, trajectory2) ==
    LET stroke1 == extractInitialStroke(trajectory1)
        stroke2 == extractInitialStroke(trajectory2)
    IN  IF Len(stroke1) < MIN_STROKE_POINTS \/ Len(stroke2) < MIN_STROKE_POINTS
        THEN 0
        ELSE LET normP1 == NormalizedStroke(stroke1)
                 normP2 == NormalizedStroke(stroke2)
                 distance == fastDTW(normP1, normP2)
             IN  similarityOf(distance, Len(normP1), Len(normP2))

\* Math.round on a value in 1/FP units: the nearest integer, halves up
MathRound(v) == (2 * v + FP) \div (2 * FP)

\* ----------------------------------------------------- generated trajectories
Shapes == {"diag", "anti", "flat", "dot", "zig", "arc", "fine"}

\* The i-th point (i = 1..n) of a shape, in 1/CoordScale pixels.  "fine"
\* moves by whole pixels in y and by less than a pixel in x.
ShapePoint(shape, i) ==
    CASE shape = "diag" -> <<CoordScale * (100 + 10 * i), CoordScale * (200 + 10 * i)>>
      [] shape = "anti" -> <<CoordScale * (500 - 10 * i), CoordScale * (200 + 10 * i)>>
      [] shape = "flat" -> <<CoordScale * (100 + 10 * i), CoordScale * 300>>
      [] shape = "dot"  -> <<CoordScale * 50, CoordScale * 50>>
      [] shape = "zig"  -> <<CoordScale * 10 * i, CoordScale * 40 * (i % 2)>>
      [] shape = "arc"  -> <<CoordScale * 10 * i, CoordScale * i * i>>
      [] shape = "fine" -> <<CoordScale * 100 + (i % 2), CoordScale * 10 * i>>

\* A trajectory of n points sampled every 100 ms, with the delta between
\* points gapAt and gapAt + 1 replaced by gapMs (gapAt = 0: no such delta)
Traj(shape, n, gapAt, gapMs) ==
    [i \in 1..n |->
        <<ShapePoint(shape, i)[1], ShapePoint(shape, i)[2],
          100 * (i - 1) + (IF gapAt > 0 /\ i > gapAt THEN gapMs - 100 ELSE 0)>>]

GapDeltas == {PAUSE_THRESHOLD_MS, PAUSE_THRESHOLD_MS + 1, 700}
\* A timestamp delta of a trajectory whose clock jumps back
BackwardsMs == 0 - 200

\* ---------------------------------------------------------- scoring of a pair
svars == <<trajA, trajB, strokeA, strokeB, normA, normB, similarityAB, similarityBA, step>>
dvars == <<selectedResults, analysisData, returned, pc>>
fvars == <<serverResults, currentPageResults, allLoadedResults, settings,
           fingerprintGroups, lastOp>>
bvars == <<similarity1, similarity2, boosted1, boosted2, bstep>>
mvars == <<original, moved, other, normOriginal, normMoved, simOriginal, simMoved, mstep>>
wvars == <<seqA, seqB, dtwAB, wstep>>
rvars == <<mouseThreshold, suspicious, dtwResults, cards, containerText, rlast>>
qvars == <<caller, attempt, fetches, waited, fetchErrors, settled, callerResult, qpc>>
lvars == <<currentPage, requests>>
vars == <<svars, dvars, fvars, bvars, mvars, wvars, rvars, qvars, lvars>>

\* The scoring variables while no scoring is modelled
ScoreIdle ==
    /\ trajA = <<>>
    /\ trajB = <<>>
    /\ strokeA = <<>>
    /\ strokeB = <<>>
    /\ normA = <<>>
    /\ normB = <<>>
    /\ similarityAB = -1
    /\ similarityBA = -1
    /\ step = "idle"

\* The variables of the moved trajectory while none is modelled
MovedIdle ==
    /\ original = <<>>
    /\ moved = <<>>
    /\ other = <<>>
    /\ normOriginal = <<>>
    /\ normMoved = <<>>
    /\ simOriginal = -1
    /\ simMoved = -1
    /\ mstep = "idle"

\* The fastDTW variables while no call is modelled
WarpIdle ==
    /\ seqA = <<>>
    /\ seqB = <<>>
    /\ dtwAB = -1
    /\ wstep = "idle"

\* The page-load variables while no page load is modelled
LoadIdle ==
    /\ currentPage = 1
    /\ requests = <<>>

\* The request variables while no request is modelled
FetchIdle ==
    /\ caller = "none"
    /\ attempt = 0
    /\ fetches = 0
    /\ waited = <<>>
    /\ fetchErrors = <<>>
    /\ settled = [kind |-> "pending"]
    /\ callerResult = [kind |-> "pending"]
    /\ qpc = "idle"

\* The report variables while no report is modelled
ReportIdle ==
    /\ mouseThreshold = DEFAULT_MOUSE_THRESHOLD
    /\ suspicious = DEFAULT_MOUSE_THRESHOLD
    /\ dtwResults = <<>>
    /\ cards = {}
    /\ containerText = "placeholder"
    /\ rlast = "idle"

\* The boost variables while no boost is modelled
BoostIdle ==
    /\ similarity1 = -1
    /\ similarity2 = -1
    /\ boosted1 = -1
    /\ boosted2 = -1
    /\ bstep = "idle"

\* The analysis variables while no analysis is modelled
DtwIdle ==
    /\ selectedResults = <<>>
    /\ analysisData = <<>>
    /\ returned = {}
    /\ pc = "idle"

\* js/state.js as the module is loaded, with nothing on the backend
StateIdle ==
    /\ serverResults = <<>>
    /\ currentPageResults = <<>>
    /\ allLoadedResults = <<>>
    /\ settings = [checkIpInFingerprint |-> TRUE]
    /\ fingerprintGroups = <<>>
    /\ lastOp = "idle"

ScoreInputs ==
    {Traj(s, n, 0, 100) : s \in Shapes, n \in {0, 1, 9, 10, MaxLen}}
    \cup {Traj(s, MaxLen, g, d) : s \in {"diag", "zig"}, g \in {3, 9, 10}, d \in GapDeltas}
    \cup {Traj("diag", 5, 3, d) : d \in GapDeltas}
    \cup {Traj(s, MaxLen, 3, BackwardsMs) : s \in {"diag", "zig"}}

ScoreInit ==
    /\ trajA \in ScoreInputs
    /\ trajB \in ScoreInputs
    /\ strokeA = <<>>
    /\ strokeB = <<>>
    /\ normA = <<>>
    /\ normB = <<>>
    /\ similarityAB = -1
    /\ similarityBA = -1
    /\ step = "start"
    /\ DtwIdle
    /\ StateIdle
    /\ BoostIdle
    /\ MovedIdle
    /\ WarpIdle
    /\ ReportIdle
    /\ FetchIdle
    /\ LoadIdle

ExtractStrokes ==
    /\ step = "start"
    /\ strokeA' = extractInitialStroke(trajA)
    /\ strokeB' = extractInitialStroke(trajB)
    /\ step' = "extracted"
    /\ UNCHANGED <<trajA, trajB, normA, normB, similarityAB, similarityBA, dvars, fvars, bvars, mvars, wvars, rvars, qvars, lvars>>

\* compareMouseTrajectories past the length test: normP1 and normP2
Normalize ==
    /\ step = "extracted"
    /\ Len(strokeA) >= MIN_STROKE_POINTS
    /\ Len(strokeB) >= MIN_STROKE_POINTS
    /\ normA' = NormalizedStroke(strokeA)
    /\ normB' = NormalizedStroke(strokeB)
    /\ step' = "normalized"
    /\ UNCHANGED <<trajA, trajB, strokeA, strokeB, similarityAB, similarityBA, dvars, fvars, bvars, mvars, wvars, rvars, qvars, lvars>>

CompareAB ==
    /\ \/ step = "normalized"
       \/ /\ step = "extracted"
          /\ Len(strokeA) < MIN_STROKE_POINTS \/ Len(strokeB) < MIN_STROKE_POINTS
    /\ similarityAB' = compareMouseTrajectories(trajA, trajB)
    /\ step' = "comparedAB"
    /\ UNCHANGED <<trajA, trajB, strokeA, strokeB, normA, normB, similarityBA, dvars, fvars, bvars, mvars, wvars, rvars, qvars, lvars>>

CompareBA ==
    /\ step = "comparedAB"
    /\ similarityBA' = compareMouseTrajectories(trajB, trajA)
    /\ step' = "done"
    /\ UNCHANGED <<trajA, trajB, strokeA, strokeB, normA, normB, similarityAB, dvars, fvars, bvars, mvars, wvars, rvars, qvars, lvars>>

ScoreNext == ExtractStrokes \/ Normalize \/ CompareAB \/ CompareBA

SpecScore == ScoreInit /\ [][ScoreNext]_vars

\* ------------------------------------------------------ the contrast boost
\* How far apart the two similarities are taken (1/FP percent)
BoostGaps == {1, 2, 15, 60}

\* similarity at line 161 is Math.max(0, ...) of a value that is at most 100
BoostInit ==
    /\ similarity1 \in 0..(MAX_SIMILARITY * FP)
    /\ similarity2 \in {similarity1 + d : d \in BoostGaps} \cap 0..(MAX_SIMILARITY * FP)
    /\ boosted1 = -1
    /\ boosted2 = -1
    /\ bstep = "start"
    /\ ScoreIdle
    /\ DtwIdle
    /\ StateIdle
    /\ MovedIdle
    /\ WarpIdle
    /\ ReportIdle
    /\ FetchIdle
    /\ LoadIdle

\* Lines 164-168 on the first similarity
BoostFirst ==
    /\ bstep = "start"
    /\ boosted1' = contrastBoost(similarity1)
    /\ bstep' = "first"
    /\ UNCHANGED <<similarity1, similarity2, boosted2, svars, dvars, fvars, mvars, wvars, rvars, qvars, lvars>>

\* Lines 164-168 on the second similarity
BoostSecond ==
    /\ bstep = "first"
    /\ boosted2' = contrastBoost(similarity2)
    /\ bstep' = "done"
    /\ UNCHANGED <<similarity1, similarity2, boosted1, svars, dvars, fvars, mvars, wvars, rvars, qvars, lvars>>

BoostNext == BoostFirst \/ BoostSecond

SpecBoost == BoostInit /\ [][BoostNext]_vars

\* --------------------------------------- a trajectory moved and resized
\* Offsets (1/CoordScale pixels) and factors a trajectory is transformed by
Transforms ==
    {[dx |-> 75, dy |-> 0 - 31, factor |-> 1],
     [dx |-> 0, dy |-> 0, factor |-> 3],
     [dx |-> 0 - 500, dy |-> 40, factor |-> 2]}

\* The trajectory with every point scaled by factor, then moved by (dx, dy)
Transformed(trajectory, t) ==
    [k \in 1..Len(trajectory) |->
        <<t.factor * trajectory[k][1] + t.dx,
          t.factor * trajectory[k][2] + t.dy,
          trajectory[k][3]>>]

\* Trajectories long enough to be normalised
ShapeInputs == {Traj(s, n, 0, 100) : s \in Shapes, n \in {MIN_STROKE_POINTS, MaxLen}}

MovedInit ==
    /\ original \in ShapeInputs
    /\ other \in ShapeInputs
    /\ moved \in {Transformed(original, t) : t \in Transforms}
    /\ normOriginal = <<>>
    /\ normMoved = <<>>
    /\ simOriginal = -1
    /\ simMoved = -1
    /\ mstep = "start"
    /\ ScoreIdle
    /\ DtwIdle
    /\ StateIdle
    /\ BoostIdle
    /\ WarpIdle
    /\ ReportIdle
    /\ FetchIdle
    /\ LoadIdle

\* normP1 of compareMouseTrajectories for the trajectory and for its copy
NormalizeBoth ==
    /\ mstep = "start"
    /\ normOriginal' = NormalizedStroke(extractInitialStroke(original))
    /\ normMoved' = NormalizedStroke(extractInitialStroke(moved))
    /\ mstep' = "normalized"
    /\ UNCHANGED <<original, moved, other, simOriginal, simMoved, svars, dvars, fvars, bvars, wvars, rvars, qvars, lvars>>

\* compareMouseTrajectories of either with the other trajectory
CompareBoth ==
    /\ mstep = "normalized"
    /\ simOriginal' = compareMouseTrajectories(original, other)
    /\ simMoved' = compareMouseTrajectories(moved, other)
    /\ mstep' = "compared"
    /\ UNCHANGED <<original, moved, other, normOriginal, normMoved, svars, dvars, fvars, bvars, wvars, rvars, qvars, lvars>>

MovedNext == NormalizeBoth \/ CompareBoth

SpecShape == MovedInit /\ [][MovedNext]_vars

\* ------------------------------------------------------- fastDTW on its own
MaxSeq == 3         \* longest of the short sequences given to fastDTW

\* Points of the normalised square the short sequences are made of
WarpPoints == {<<0, 0>>, <<NORM_SIDE * FP, 0>>, <<300 * FP, 400 * FP>>}

RECURSIVE ShortSeqs(_)
ShortSeqs(n) ==
    IF n = 0 THEN {<<>>}
    ELSE LET shorter == ShortSeqs(n - 1)
         IN  shorter \cup
             {Append(q, pt) : q \in {r \in shorter : Len(r) = n - 1}, pt \in WarpPoints}

\* Short sequences of any content, and the normalised strokes of the shapes
WarpInputs == ShortSeqs(MaxSeq) \cup {NormalizedStroke(t) : t \in ShapeInputs}

WarpInit ==
    /\ seqA \in WarpInputs
    /\ seqB \in WarpInputs
    /\ dtwAB = -1
    /\ wstep = "start"
    /\ ScoreIdle
    /\ DtwIdle
    /\ StateIdle
    /\ BoostIdle
    /\ MovedIdle
    /\ ReportIdle
    /\ FetchIdle
    /\ LoadIdle

\* fastDTW(seqA, seqB)
RunFastDTW ==
    /\ wstep = "start"
    /\ dtwAB' = fastDTW(seqA, seqB)
    /\ wstep' = "done"
    /\ UNCHANGED <<seqA, seqB, svars, dvars, fvars, bvars, mvars, rvars, qvars, lvars>>

WarpNext == RunFastDTW

SpecDtw == WarpInit /\ [][WarpNext]_vars

\* ------------------------------------------------- runClientDtwAnalysis
\* A full result as /api/get_full_result returns it, reduced to the fields
\* runClientDtwAnalysis reads.  An optional field carries a flag: hasMetrics
\* (behavioralMetrics?.perQuestion is defined), and per question isObject
\* (the array element is an object) and hasMouse (mouseMovements is defined).
Question(points) == [isObject |-> TRUE, hasMouse |-> TRUE, mouseMovements |-> points]
NoMouse == [isObject |-> TRUE, hasMouse |-> FALSE, mouseMovements |-> <<>>]
NullQuestion == [isObject |-> FALSE, hasMouse |-> FALSE, mouseMovements |-> <<>>]

FullResult(id, type, questions) ==
    [sessionId |-> id, testType |-> type, hasMetrics |-> TRUE, perQuestion |-> questions]
NoMetrics(id, type) ==
    [sessionId |-> id, testType |-> type, hasMetrics |-> FALSE, perQuestion |-> <<>>]

\* The stored sessions the analysis can be asked to compare
StoredResults ==
    { FullResult("s1", "A", << Question(Traj("diag", 20, 0, 100)),
                               Question(Traj("zig", MaxLen, 0, 100)),
                               Question(Traj("arc", 10, 0, 100)) >>),
      FullResult("s2", "A", << Question(Traj("diag", 20, 0, 100)),
                               Question(Traj("zig", MaxLen, 0, 100)),
                               Question(Traj("anti", 10, 0, 100)) >>),
      FullResult("s3", "B", << Question(Traj("diag", 20, 0, 100)),
                               Question(Traj("zig", MaxLen, 0, 100)) >>),
      FullResult("s4", "C", << Question(Traj("diag", 5, 0, 100)),
                               Question(<<>>),
                               Question(Traj("arc", 10, 0, 100)),
                               Question(<<>>) >>),
      FullResult("s5", "C", << Question(Traj("diag", 50, 0, 100)),
                               Question(Traj("zig", MaxLen, 0, 100)),
                               NoMouse,
                               NoMouse >>),
      NoMetrics("s6", "C"),
      FullResult("s7", "C", << Question(Traj("diag", MaxLen, 3, 700)),
                               NullQuestion,
                               Question(Traj("arc", 10, 0, 100)),
                               Question(Traj("flat", 10, 0, 100)) >>),
      FullResult("s8", "A", << Question(Traj("flat", 10, 0, 100)),
                               Question(Traj("zig", MaxLen, 9, PAUSE_THRESHOLD_MS + 1)),
                               Question(Traj("dot", 10, 0, 100)) >>) }

MaxSelected == 3    \* most sessions passed to one analysis

\* A key with the two ids the other way round
PairKeySwapped(result1, result2) == result2.sessionId \o "_vs_" \o result1.sessionId

\* `${result1.sessionId}_vs_${result2.sessionId}`
PairKey(result1, result2) == result1.sessionId \o "_vs_" \o result2.sessionId

\* questions[qIndex]?.mouseMovements, qIndex counted from 0
MouseMovementsAt(questions, qIndex) ==
    LET q == questions[qIndex + 1]
    IN  [defined |-> q.isObject /\ q.hasMouse, points |-> q.mouseMovements]

\* traj1 && traj2: an array, even an empty one, is truthy
BothTruthy(traj1, traj2) == traj1.defined /\ traj2.defined

\* The loop over qIndex for one pair: the iterations are independent, each
\* one calls compareMouseTrajectories at most once.  The result is the set of
\* these calls, each with the similarity it returned.
QuestionLoop(pairKey, questions1, questions2) ==
    LET numQuestions == Min2(Len(questions1), Len(questions2))
        scored == {qIndex \in 0..(numQuestions - 1) :
                      BothTruthy(MouseMovementsAt(questions1, qIndex),
                                 MouseMovementsAt(questions2, qIndex))}
    IN  {[pairKey |-> pairKey, qIndex |-> qIndex,
          similarity |-> compareMouseTrajectories(
                             MouseMovementsAt(questions1, qIndex).points,
                             MouseMovementsAt(questions2, qIndex).points)] :
            qIndex \in scored}

\* analysisData[pairKey] after the loop: analysisData[pairKey][qIndex] =
\* Math.round(similarity) for every call made
EntryOf(calls) ==
    [qIndex \in {c.qIndex : c \in calls} |->
        MathRound((CHOOSE c \in calls : c.qIndex = qIndex).similarity)]

\* A loop without the test type check
SkipPairNever(result1, result2) == FALSE

\* result1.testType !== result2.testType (the results themselves are never
\* null: runDetailedAnalysis filters the failed fetches out)
SkipPair(result1, result2) == result1.testType # result2.testType

\* Loops that also skip a pair when a session has no behavioural metrics
ComparedPairsWithMetrics(results) ==
    {p \in (1..Len(results)) \X (1..Len(results)) :
        /\ p[1] < p[2]
        /\ ~SkipPair(results[p[1]], results[p[2]])
        /\ results[p[1]].hasMetrics
        /\ results[p[2]].hasMetrics}

\* The pairs (i, j), i < j, the two loops get past the continue for
ComparedPairs(results) ==
    {p \in (1..Len(results)) \X (1..Len(results)) :
        p[1] < p[2] /\ ~SkipPair(results[p[1]], results[p[2]])}

\* result.behavioralMetrics.perQuestion read without the ?.: a TypeError
\* when the result has no behavioralMetrics
PerQuestionOfUnguarded(result) ==
    [threw |-> ~result.hasMetrics,
     questions |-> IF result.hasMetrics THEN result.perQuestion ELSE <<>>]

\* result.behavioralMetrics?.perQuestion || []: the optional chaining gives
\* undefined, never a TypeError, when behavioralMetrics is missing
PerQuestionOf(result) ==
    [threw |-> FALSE,
     questions |-> IF result.hasMetrics THEN result.perQuestion ELSE <<>>]

\* The body of the two loops for the pair p
PairStep(results, p) ==
    LET result1 == results[p[1]]
        result2 == results[p[2]]
        questions1 == PerQuestionOf(result1).questions
        questions2 == PerQuestionOf(result2).questions
    IN  QuestionLoop(PairKey(result1, result2), questions1, questions2)

\* The loops hit a TypeError at some pair
Throws(results) ==
    \E p \in ComparedPairs(results) :
        PerQuestionOf(results[p[1]]).threw \/ PerQuestionOf(results[p[2]]).threw

\* The two loops.  A key is assigned anew by every pair that produces it, so
\* it ends with the entry of the last such pair in loop order.  The result
\* holds analysisData and everything compareMouseTrajectories returned.
ClientDtw(results) ==
    LET pairs == ComparedPairs(results)
        done == {[pair |-> p, calls |-> PairStep(results, p)] : p \in pairs}
        KeyOf(p) == PairKey(results[p[1]], results[p[2]])
        Later(p, q) == p[1] > q[1] \/ (p[1] = q[1] /\ p[2] >= q[2])
        LastWith(key) == CHOOSE d \in done :
                             /\ KeyOf(d.pair) = key
                             /\ \A e \in done : KeyOf(e.pair) = key => Later(d.pair, e.pair)
    IN  [analysisData |-> [key \in {KeyOf(p) : p \in pairs} |-> EntryOf(LastWith(key).calls)],
         returned |-> UNION {d.calls : d \in done}]

RECURSIVE Selections(_)
Selections(n) ==
    IF n = 0 THEN {<<>>}
    ELSE LET shorter == Selections(n - 1)
         IN  shorter \cup
             {Append(sel, r) : sel \in {s \in shorter : Len(s) = n - 1},
                               r \in StoredResults}

Distinct(sel) == \A a, b \in 1..Len(sel) : a # b => sel[a].sessionId # sel[b].sessionId

Init ==
    /\ selectedResults \in {sel \in Selections(MaxSelected) : Distinct(sel)}
    /\ analysisData = <<>>
    /\ returned = {}
    /\ pc = "called"
    /\ ScoreIdle
    /\ StateIdle
    /\ BoostIdle
    /\ MovedIdle
    /\ WarpIdle
    /\ ReportIdle
    /\ FetchIdle
    /\ LoadIdle

\* runClientDtwAnalysis up to its await: the loading message is shown
ShowLoading ==
    /\ pc = "called"
    /\ pc' = "waiting"
    /\ UNCHANGED <<selectedResults, analysisData, returned, svars, fvars, bvars, mvars, wvars, rvars, qvars, lvars>>

\* runClientDtwAnalysis after the 50 ms timer: the loops, and the return
RunLoops ==
    /\ pc = "waiting"
    /\ IF Throws(selectedResults)
       THEN /\ pc' = "threw"
            /\ UNCHANGED <<analysisData, returned>>
       ELSE /\ LET out == ClientDtw(selectedResults)
               IN  /\ analysisData' = out.analysisData
                   /\ returned' = out.returned
            /\ pc' = "returned"
    /\ UNCHANGED <<selectedResults, svars, fvars, bvars, mvars, wvars, rvars, qvars, lvars>>

Next == ShowLoading \/ RunLoops

Spec == Init /\ [][Next]_vars

\* ------------------------------------------------------------- js/state.js
\* A result of /api/get_results, reduced to the fields the fingerprint
\* analysis reads.  A string field that is absent is held as "", which the
\* code's || treats like an absent one; the names are sequences of
\* one-character strings.  fingerprintHash is the field analyzeFingerprints
\* adds, "" while the object does not have it.
Result(id, hash, renderer, test, ip, last, first) ==
    [sessionId |-> id, privacySafeHash |-> hash, webGLRenderer |-> renderer,
     testType |-> test, clientIp |-> ip, lastName |-> last, firstName |-> first,
     fingerprintHash |-> ""]

\* What the backend may hold, in the order it serves it
BackendResults ==
    << Result("s1", "h1", "", "T1", "ip1", <<"a", "b">>, <<"a">>),
       Result("s2", "h1", "", "T1", "ip1", <<"A", "B">>, <<"A", " ">>),
       Result("s3", "h1", "", "T1", "ip2", <<"b">>, <<"a">>),
       Result("s4", "h1", "w1", "T2", "ip1", <<"b">>, <<"b">>),
       Result("s5", "h1", "", "T1", "ip1", <<>>, <<>>),
       Result("s6", "", "w1", "T1", "ip1", <<"a">>, <<"a">>),
       Result("s7", "", "w1", "T2", "ip1", <<"b">>, <<"b">>),
       Result("s8", "", "", "T1", "ip1", <<"b">>, <<"a">>),
       Result("s9", "h2", "", "", "", <<"a">>, <<"b">>),
       Result("s10", "h2", "", "", "", <<"b">>, <<"a">>),
       Result("", "h1", "", "T1", "ip1", <<"b">>, <<"a">>) >>

MaxStored == 5      \* most results the backend holds
PageSize == 4       \* results per page

\* The results at the positions picked, in the backend's order
RECURSIVE Stored(_)
Stored(picked) ==
    IF picked = {} THEN <<>>
    ELSE LET last == CHOOSE k \in picked : \A l \in picked : l <= k
         IN  Append(Stored(picked \ {last}), BackendResults[last])

\* data.results of /api/get_results?page=page
PageOf(stored, page) ==
    SubSeq(stored, (page - 1) * PageSize + 1, Min2(page * PageSize, Len(stored)))

\* allLoadedResults.set(result.sessionId, result): a key the Map has keeps
\* its place, a new key goes last
MapSet(map, result) ==
    IF \E k \in 1..Len(map) : map[k].sessionId = result.sessionId
    THEN [k \in 1..Len(map) |->
             IF map[k].sessionId = result.sessionId THEN result ELSE map[k]]
    ELSE Append(map, result)

\* data.forEach(result => { if (result.sessionId) allLoadedResults.set(...) })
RECURSIVE SetAll(_, _)
SetAll(map, data) ==
    IF data = <<>> THEN map
    ELSE SetAll(IF Head(data).sessionId # "" THEN MapSet(map, Head(data)) ELSE map,
                Tail(data))

\* setCurrentPageResults(data): the cache is cleared, then filled from data
CacheAfter(map, data) == SetAll(<<>>, data)

\* ------------------------------------------------------ analyzeFingerprints
\* String.prototype.toLowerCase, on the letters the names are written in
LowerChar(c) ==
    CASE c = "A" -> "a"
      [] c = "B" -> "b"
      [] OTHER -> c
toLowerCase(str) == [k \in 1..Len(str) |-> LowerChar(str[k])]

\* String.prototype.trim
trim(str) ==
    LET keep == {k \in 1..Len(str) : str[k] # " "}
    IN  IF keep = {} THEN <<>>
        ELSE SubSeq(str, CHOOSE k \in keep : \A l \in keep : k <= l,
                         CHOOSE k \in keep : \A l \in keep : k >= l)

\* `${result.userInfo.lastName} ${result.userInfo.firstName}`.trim().toLowerCase()
UserName(result) == toLowerCase(trim(result.lastName \o <<" ">> \o result.firstName))

\* result.fingerprint?.privacySafeHash
\*     || result.fingerprint?.privacySafe?.webGLRenderer || 'unknown'
getFingerprintHash(result) ==
    IF result.privacySafeHash # "" THEN result.privacySafeHash
    ELSE IF result.webGLRenderer # "" THEN result.webGLRenderer
    ELSE "unknown"

\* A key that is the test type whatever the setting says
SubGroupKeyByTest(result, checkIpInFingerprint) ==
    IF result.testType # "" THEN result.testType ELSE "unknown_test"

\* A key that is the client IP alone when the setting is on
SubGroupKeyByIp(result, checkIpInFingerprint) ==
    LET test == IF result.testType # "" THEN result.testType ELSE "unknown_test"
        ip   == IF result.clientIp # "" THEN result.clientIp ELSE "unknown_ip"
    IN  IF checkIpInFingerprint THEN ip ELSE test

\* The key of the sub-group a result of a group falls in
SubGroupKey(result, checkIpInFingerprint) ==
    LET test == IF result.testType # "" THEN result.testType ELSE "unknown_test"
        ip   == IF result.clientIp # "" THEN result.clientIp ELSE "unknown_ip"
    IN  IF checkIpInFingerprint THEN ip \o "|" \o test ELSE test

\* usersByKey if the empty user name were added like any other
UsersByKeyWithEmpty(results, checkIpInFingerprint) ==
    LET at == 1..Len(results)
    IN  [key \in {SubGroupKey(results[k], checkIpInFingerprint) : k \in at} |->
            {UserName(results[k]) :
                k \in {l \in at : SubGroupKey(results[l], checkIpInFingerprint) = key}}]

\* usersByKey once the inner forEach is through: an empty user name is not added
UsersByKey(results, checkIpInFingerprint) ==
    LET at == 1..Len(results)
    IN  [key \in {SubGroupKey(results[k], checkIpInFingerprint) : k \in at} |->
            {UserName(results[k]) :
                k \in {l \in at : /\ SubGroupKey(results[l], checkIpInFingerprint) = key
                                  /\ UserName(results[l]) # <<>>}}]

\* Step 2 for one group: group.isAnomalous when the forEach is done with it
IsAnomalous(results, checkIpInFingerprint) ==
    IF Len(results) <= 1 THEN FALSE
    ELSE LET usersByKey == UsersByKey(results, checkIpInFingerprint)
         IN  \E key \in DOMAIN usersByKey : Cardinality(usersByKey[key]) > 1

\* Step 1 writes result.fingerprintHash into every cached result
Tagged(loaded) ==
    [k \in 1..Len(loaded) |->
        [loaded[k] EXCEPT !.fingerprintHash = getFingerprintHash(loaded[k])]]

\* Groups kept only when they have more than one member
NewFingerprintGroupsOfSeveral(loaded, checkIpInFingerprint) ==
    LET tagged == Tagged(loaded)
        hashes == {tagged[k].fingerprintHash : k \in 1..Len(tagged)} \ {"unknown"}
        Members(hash) == SelectSeq(tagged, LAMBDA r : r.fingerprintHash = hash)
    IN  [hash \in {h \in hashes : Len(Members(h)) > 1} |->
            [results |-> Members(hash),
             isAnomalous |-> IsAnomalous(Members(hash), checkIpInFingerprint)]]

\* Groups built without the test hash !== 'unknown'
NewFingerprintGroupsWithUnknown(loaded, checkIpInFingerprint) ==
    LET tagged == Tagged(loaded)
        hashes == {tagged[k].fingerprintHash : k \in 1..Len(tagged)}
        Members(hash) == SelectSeq(tagged, LAMBDA r : r.fingerprintHash = hash)
    IN  [hash \in hashes |->
            [results |-> Members(hash),
             isAnomalous |-> IsAnomalous(Members(hash), checkIpInFingerprint)]]

\* newFingerprintGroups as analyzeFingerprints hands it to setFingerprintGroups:
\* every hash but 'unknown' has a group, its results in the order of the cache
NewFingerprintGroups(loaded, checkIpInFingerprint) ==
    LET tagged == Tagged(loaded)
        hashes == {tagged[k].fingerprintHash : k \in 1..Len(tagged)} \ {"unknown"}
        Members(hash) == SelectSeq(tagged, LAMBDA r : r.fingerprintHash = hash)
    IN  [hash \in hashes |->
            [results |-> Members(hash),
             isAnomalous |-> IsAnomalous(Members(hash), checkIpInFingerprint)]]

StoredChoices ==
    {Stored(picked) : picked \in {q \in SUBSET (1..Len(BackendResults)) :
                                      Cardinality(q) <= MaxStored}}

FpInit ==
    /\ serverResults \in StoredChoices
    /\ currentPageResults = <<>>
    /\ allLoadedResults = <<>>
    /\ settings = [checkIpInFingerprint |-> TRUE]
    /\ fingerprintGroups = <<>>
    /\ lastOp = "start"
    /\ ScoreIdle
    /\ DtwIdle
    /\ BoostIdle
    /\ MovedIdle
    /\ WarpIdle
    /\ ReportIdle
    /\ FetchIdle
    /\ LoadIdle

\* setCurrentPageResults(data.results), data being a page of the backend
SetCurrentPageResults ==
    /\ \E page \in 1..((MaxStored + PageSize - 1) \div PageSize) :
          LET data == PageOf(serverResults, page)
          IN  /\ currentPageResults' = data
              /\ allLoadedResults' = CacheAfter(allLoadedResults, data)
    /\ lastOp' = "setCurrentPageResults"
    /\ UNCHANGED <<serverResults, settings, fingerprintGroups, svars, dvars, bvars, mvars, wvars, rvars, qvars, lvars>>

\* setSettings(newSettings) as saveSettings calls it
SetSettings ==
    /\ \E check \in BOOLEAN : settings' = [checkIpInFingerprint |-> check]
    /\ lastOp' = "setSettings"
    /\ UNCHANGED <<serverResults, currentPageResults, allLoadedResults,
                   fingerprintGroups, svars, dvars, bvars, mvars, wvars, rvars, qvars, lvars>>

\* analyzeFingerprints().  The objects of the cache are those of
\* currentPageResults, so the field written in step 1 shows there too.
AnalyzeFingerprints ==
    /\ fingerprintGroups' =
           NewFingerprintGroups(allLoadedResults, settings.checkIpInFingerprint)
    /\ allLoadedResults' = Tagged(allLoadedResults)
    /\ currentPageResults' =
           [k \in 1..Len(currentPageResults) |->
               IF currentPageResults[k].sessionId # ""
               THEN Tagged(currentPageResults)[k] ELSE currentPageResults[k]]
    /\ lastOp' = "analyzeFingerprints"
    /\ UNCHANGED <<serverResults, settings, svars, dvars, bvars, mvars, wvars, rvars, qvars, lvars>>

FpNext == SetCurrentPageResults \/ SetSettings \/ AnalyzeFingerprints

SpecFp == FpInit /\ [][FpNext]_vars

\* ------------------------------------------------ js/ui.js: the DTW report
\* The question maps a pair may carry: question index -> rounded similarity
ScoreMaps ==
    { <<>>, (0 :> 60), (0 :> 75), (0 :> 88), (0 :> 60) @@ (1 :> 95),
      (0 :> 69) @@ (1 :> 40) }

\* The pair keys of the reports rendered here
ReportKeys == {"s1_vs_s2", "s1_vs_s3"}

\* The sessions of selectedResults, each with its userInfo
ReportSessions == {"s1", "s2", "s3"}

\* The results handed to renderDtwResults: pair key -> question map
ReportInputs ==
    UNION { [keys -> ScoreMaps] : keys \in SUBSET ReportKeys }

\* What the operator may type into the mouseThreshold field
ThresholdInputs == {0 - 5, 50, 60, 90, 100, 120}

\* pairKey.split('_vs_')
SplitPairKey(pairKey) ==
    CHOOSE pair \in ReportSessions \X ReportSessions :
        pair[1] \o "_vs_" \o pair[2] = pairKey

\* selectedResults.find(r => r.sessionId === sid)?.userInfo is there
UserFound(sid) == sid \in ReportSessions

RECURSIVE SumScores(_, _)
\* questionScores.reduce((a, b) => a + b, 0)
SumScores(scores, questions) ==
    IF questions = {} THEN 0
    ELSE LET q == CHOOSE x \in questions : TRUE
         IN scores[q] + SumScores(scores, questions \ {q})

\* (sum / length).toFixed(1), in tenths of a percent; NaN (0/0) is -1
AvgSim(scores) ==
    IF DOMAIN scores = {} THEN 0 - 1
    ELSE (20 * SumScores(scores, DOMAIN scores) + Cardinality(DOMAIN scores))
            \div (2 * Cardinality(DOMAIN scores))

\* Object.entries(scores).filter(([, s]) => s >= HIGH_SIMILARITY): the questions kept
HighSim(scores) == {q \in DOMAIN scores : scores[q] >= HIGH_SIMILARITY}

\* highSim.some(([, s]) => s >= DTW_THRESHOLDS.SUSPICIOUS)
IsAnomalousPair(scores, threshold) ==
    \E q \in HighSim(scores) : scores[q] >= threshold

\* A forEach that builds a card for every pair, empty question map or not
CardKeysOfAll(results) ==
    {pairKey \in DOMAIN results :
        /\ UserFound(SplitPairKey(pairKey)[1])
        /\ UserFound(SplitPairKey(pairKey)[2])}

\* The pairs the forEach of renderDtwResults builds a card for
CardKeysOf(results) ==
    {pairKey \in DOMAIN results :
        /\ DOMAIN results[pairKey] # {}
        /\ UserFound(SplitPairKey(pairKey)[1])
        /\ UserFound(SplitPairKey(pairKey)[2])}

\* The cards of one rendering
CardsOf(results, threshold) ==
    { [pairKey |-> pairKey,
       avgSim |-> AvgSim(results[pairKey]),
       highSim |-> HighSim(results[pairKey]),
       isAnomalous |-> IsAnomalousPair(results[pairKey], threshold)] :
      pairKey \in CardKeysOf(results) }

\* What the container shows besides cards
ContainerTextOf(results, threshold) ==
    IF DOMAIN results = {} THEN "noData"
    ELSE IF CardsOf(results, threshold) = {} THEN "noCommonQuestions"
    ELSE "cards"

\* The module is loaded: state.js has its defaults, DTW_THRESHOLDS is built
ReportInit ==
    /\ mouseThreshold = DEFAULT_MOUSE_THRESHOLD
    /\ suspicious = DEFAULT_MOUSE_THRESHOLD
    /\ dtwResults = <<>>
    /\ cards = {}
    /\ containerText = "placeholder"
    /\ rlast = "load"
    /\ ScoreIdle
    /\ DtwIdle
    /\ StateIdle
    /\ BoostIdle
    /\ MovedIdle
    /\ WarpIdle
    /\ FetchIdle
    /\ LoadIdle

\* saveSettings: the operator saves a mouseThreshold
SaveSettings ==
    /\ \E typed \in ThresholdInputs :
        mouseThreshold' = Min2(100, Max2(0, typed))
    /\ rlast' = "saveSettings"
    /\ UNCHANGED <<suspicious, dtwResults, cards, containerText>>
    /\ UNCHANGED <<svars, dvars, fvars, bvars, mvars, wvars, qvars, lvars>>

\* renderDtwResults(dtwResults, selectedResults)
RenderDtwResults ==
    /\ \E results \in ReportInputs :
        /\ dtwResults' = results
        /\ cards' = CardsOf(results, suspicious)
        /\ containerText' = ContainerTextOf(results, suspicious)
    /\ rlast' = "renderDtwResults"
    /\ UNCHANGED <<mouseThreshold, suspicious>>
    /\ UNCHANGED <<svars, dvars, fvars, bvars, mvars, wvars, qvars, lvars>>

ReportNext == SaveSettings \/ RenderDtwResults

SpecReport == ReportInit /\ [][ReportNext]_vars

\* ------------------------------------------------- APIClient.safeFetch
\* The methods of APIClient that catch what safeFetch throws
Callers == {"fetchFullResultDetails", "runServerDtwAnalysis"}

\* The bodies a response may carry, parsed
Bodies == {"body1", "body2"}

\* What a failed attempt throws: the Error made for a response that is not
\* ok, or the rejection of fetch itself
AttemptErrors == {"HTTP 500", "HTTP 404", "TypeError: Failed to fetch"}

\* A timeout of one second whatever the attempt
BackoffMsFlat(n) == 1000

\* Math.pow(2, attempt) * 1000
BackoffMs(n) == (2 ^ n) * 1000

FetchInit ==
    /\ caller \in Callers
    /\ attempt = 0
    /\ fetches = 0
    /\ waited = <<>>
    /\ fetchErrors = <<>>
    /\ settled = [kind |-> "pending"]
    /\ callerResult = [kind |-> "pending"]
    /\ qpc = "fetch"
    /\ ScoreIdle
    /\ DtwIdle
    /\ StateIdle
    /\ BoostIdle
    /\ MovedIdle
    /\ WarpIdle
    /\ ReportIdle
    /\ LoadIdle

\* An attempt whose response is ok and whose body parses: return response.json()
AttemptOk ==
    /\ qpc = "fetch"
    /\ \E body \in Bodies : settled' = [kind |-> "fulfilled", value |-> body]
    /\ fetches' = fetches + 1
    /\ qpc' = "settled"
    /\ UNCHANGED <<caller, attempt, waited, fetchErrors, callerResult>>
    /\ UNCHANGED <<svars, dvars, fvars, bvars, mvars, wvars, rvars, lvars>>

\* An attempt whose response is ok and whose body is not JSON: the promise
\* returned by response.json() rejects, outside the try
AttemptOkNotJson ==
    /\ qpc = "fetch"
    /\ settled' = [kind |-> "rejected", value |-> "SyntaxError"]
    /\ fetches' = fetches + 1
    /\ qpc' = "settled"
    /\ UNCHANGED <<caller, attempt, waited, fetchErrors, callerResult>>
    /\ UNCHANGED <<svars, dvars, fvars, bvars, mvars, wvars, rvars, lvars>>

\* An attempt that fails: the catch block, up to its await or, after the
\* last attempt, the end of the loop and throw lastError
AttemptFails ==
    /\ qpc = "fetch"
    /\ \E error \in AttemptErrors :
        /\ fetchErrors' = Append(fetchErrors, error)
        /\ IF attempt < MAX_ATTEMPTS - 1
           THEN /\ qpc' = "timeout"
                /\ UNCHANGED <<attempt, settled>>
           ELSE /\ attempt' = attempt + 1
                /\ settled' = [kind |-> "rejected", value |-> error]
                /\ qpc' = "settled"
    /\ fetches' = fetches + 1
    /\ UNCHANGED <<caller, waited, callerResult>>
    /\ UNCHANGED <<svars, dvars, fvars, bvars, mvars, wvars, rvars, lvars>>

\* The timeout of the catch block elapses; the loop goes on
TimeoutElapses ==
    /\ qpc = "timeout"
    /\ waited' = Append(waited, BackoffMs(attempt))
    /\ attempt' = attempt + 1
    /\ qpc' = "fetch"
    /\ UNCHANGED <<caller, fetches, fetchErrors, settled, callerResult>>
    /\ UNCHANGED <<svars, dvars, fvars, bvars, mvars, wvars, rvars, lvars>>

\* The caller's await: it returns the data, or null from its catch block
CallerReturns ==
    /\ qpc = "settled"
    /\ callerResult' =
        IF settled.kind = "fulfilled" THEN [kind |-> "data", value |-> settled.value]
        ELSE [kind |-> "null"]
    /\ qpc' = "done"
    /\ UNCHANGED <<caller, attempt, fetches, waited, fetchErrors, settled>>
    /\ UNCHANGED <<svars, dvars, fvars, bvars, mvars, wvars, rvars, lvars>>

FetchNext ==
    AttemptOk \/ AttemptOkNotJson \/ AttemptFails \/ TimeoutElapses \/ CallerReturns

SpecFetch == FetchInit /\ [][FetchNext]_vars

\* --------------------------------------------------- loadInitialData
MaxRequests == 3    \* most calls of loadInitialData in one run

\* The pages the pagination buttons offer
Pages == 1..((MaxStored + PageSize - 1) \div PageSize)

\* What the backend holds while the pages are loaded
LoadStored == {Stored(1..n) : n \in 3..MaxStored}

LoadInit ==
    /\ serverResults \in LoadStored
    /\ currentPageResults = <<>>
    /\ allLoadedResults = <<>>
    /\ settings = [checkIpInFingerprint |-> TRUE]
    /\ fingerprintGroups = <<>>
    /\ lastOp = "start"
    /\ currentPage = 1
    /\ requests = <<>>
    /\ ScoreIdle
    /\ DtwIdle
    /\ BoostIdle
    /\ MovedIdle
    /\ WarpIdle
    /\ ReportIdle
    /\ FetchIdle

\* loadInitialData(page) up to its await: the request is sent
LoadInitialData ==
    /\ Len(requests) < MaxRequests
    /\ \E page \in Pages :
        requests' = Append(requests, [page |-> page, state |-> "pending"])
    /\ lastOp' = "loadInitialData"
    /\ UNCHANGED <<serverResults, currentPageResults, allLoadedResults, settings,
                   fingerprintGroups, currentPage>>
    /\ UNCHANGED <<svars, dvars, bvars, mvars, wvars, rvars, qvars>>

\* The response of a pending request arrives: loadInitialData resumes with
\* setCurrentPageResults(data.results) and setPaginationState(data.page, ...)
ResponseArrives ==
    /\ \E i \in 1..Len(requests) :
        /\ requests[i].state = "pending"
        /\ LET data == PageOf(serverResults, requests[i].page)
           IN  /\ currentPageResults' = data
               /\ allLoadedResults' = CacheAfter(allLoadedResults, data)
        /\ currentPage' = requests[i].page
        /\ requests' = [requests EXCEPT ![i].state = "done"]
    /\ lastOp' = "setPaginationState"
    /\ UNCHANGED <<serverResults, settings, fingerprintGroups>>
    /\ UNCHANGED <<svars, dvars, bvars, mvars, wvars, rvars, qvars>>

\* A pending request fails: the catch block shows the error, the state stays
ResponseFails ==
    /\ \E i \in 1..Len(requests) :
        /\ requests[i].state = "pending"
        /\ requests' = [requests EXCEPT ![i].state = "failed"]
    /\ lastOp' = "catch"
    /\ UNCHANGED <<serverResults, currentPageResults, allLoadedResults, settings,
                   fingerprintGroups, currentPage>>
    /\ UNCHANGED <<svars, dvars, bvars, mvars, wvars, rvars, qvars>>

LoadNext == LoadInitialData \/ ResponseArrives \/ ResponseFails

SpecLoad == LoadInit /\ [][LoadNext]_vars

\* ====================================================================
\* Properties
\* ====================================================================
Returned == pc = "returned"

\* The positions i < j of the sessions passed to the analysis
SessionPairs ==
    {p \in (1..Len(selectedResults)) \X (1..Len(selectedResults)) : p[1] < p[2]}
SameTestPairs ==
    {p \in SessionPairs :
        selectedResults[p[1]].testType = selectedResults[p[2]].testType}
First(p) == selectedResults[p[1]]
Second(p) == selectedResults[p[2]]
KeyText(a, b) == a.sessionId \o "_vs_" \o b.sessionId
PerQuestion(r) == IF r.hasMetrics THEN r.perQuestion ELSE <<>>
\* The question indices both sessions of a pair have
Shared(p) == 0..(Min2(Len(PerQuestion(First(p))), Len(PerQuestion(Second(p)))) - 1)
\* mouseMovements of a session at question q is there (an array, maybe empty)
HasMovements(r, q) == PerQuestion(r)[q + 1].isObject /\ PerQuestion(r)[q + 1].hasMouse
Movements(r, q) == PerQuestion(r)[q + 1].mouseMovements
\* The questions of a pair on which both sessions have an array of movements
BothThere(p) == {q \in Shared(p) : HasMovements(First(p), q) /\ HasMovements(Second(p), q)}
Entry(p) == analysisData[KeyText(First(p), Second(p))]
\* What compareMouseTrajectories returned for question q of pair p
ReturnedFor(p, q) ==
    {c.similarity : c \in {d \in returned :
        d.pairKey = KeyText(First(p), Second(p)) /\ d.qIndex = q}}
AllEntries ==
    UNION {{analysisData[key][q] : q \in DOMAIN analysisData[key]} :
              key \in DOMAIN analysisData}

\* C1 (as claimed): every similarity compareMouseTrajectories returns and every
\* value stored in the result is an integer between 0 and 100.
C1_ReturnedAndStoredAreIntegers ==
    Returned =>
        /\ \A c \in returned :
              c.similarity % FP = 0 /\ c.similarity >= 0 /\ c.similarity <= 100 * FP
        /\ AllEntries \subseteq 0..100

\* C1 (amended): compareMouseTrajectories returns a number between 0 and 100,
\* which need not be an integer; every value stored in the result is that
\* number rounded, an integer between 0 and 100.
C1_ReturnedInRangeStoredInteger ==
    Returned =>
        /\ \A c \in returned : c.similarity >= 0 /\ c.similarity <= 100 * FP
        /\ AllEntries \subseteq 0..100
        /\ \A c \in returned :
              /\ 2 * FP * analysisData[c.pairKey][c.qIndex] - FP <= 2 * c.similarity
              /\ 2 * c.similarity < 2 * FP * analysisData[c.pairKey][c.qIndex] + FP

C1_Witness ==
    /\ Returned
    /\ \E c \in returned : c.similarity % FP # 0
    /\ \E c \in returned : c.similarity = 100 * FP
    /\ \E c \in returned : c.similarity = 0

\* C2: a question on which either stroke, after extraction, has fewer than 10
\* points is scored exactly 0, whatever the other trajectory is.
C2_ShortStrokeScoresZero ==
    Returned =>
        \A p \in SameTestPairs : \A q \in BothThere(p) :
            (\/ Len(extractInitialStroke(Movements(First(p), q))) < 10
             \/ Len(extractInitialStroke(Movements(Second(p), q))) < 10)
            => Entry(p)[q] = 0 /\ ReturnedFor(p, q) = {0}

\* a 5-point against a 50-point trajectory, and a trajectory of 10 or more
\* points cut below 10 by a pause against a 50-point one, both scored 0
C2_Witness ==
    /\ Returned
    /\ \E p \in SameTestPairs :
          /\ 0 \in BothThere(p)
          /\ {Len(Movements(First(p), 0)), Len(Movements(Second(p), 0))} = {5, 50}
          /\ Entry(p)[0] = 0
    /\ \E p \in SameTestPairs :
          /\ 0 \in BothThere(p)
          /\ Len(Movements(First(p), 0)) >= 10
          /\ Len(Movements(Second(p), 0)) >= 10
          /\ \/ Len(extractInitialStroke(Movements(First(p), 0))) < 10
             \/ Len(extractInitialStroke(Movements(Second(p), 0))) < 10
          /\ Entry(p)[0] = 0

\* The bounding box of a stroke has both a width and a height
NonDegenerate(stroke) ==
    /\ \E a, b \in 1..Len(stroke) : stroke[a][1] # stroke[b][1]
    /\ \E a, b \in 1..Len(stroke) : stroke[a][2] # stroke[b][2]

\* C3: a question on which both sessions have the same stroke of 10 or more
\* points, with a non-degenerate bounding box, is scored 100.
C3_SelfSimilarityIs100 ==
    Returned =>
        \A p \in SameTestPairs : \A q \in BothThere(p) :
            LET stroke == extractInitialStroke(Movements(First(p), q))
            IN  (/\ Movements(First(p), q) = Movements(Second(p), q)
                 /\ Len(stroke) >= 10
                 /\ NonDegenerate(stroke))
                => Entry(p)[q] = 100 /\ ReturnedFor(p, q) = {100 * FP}

\* two sessions of one test with the identical 20-point stroke on question 0
C3_Witness ==
    /\ Returned
    /\ \E p \in SameTestPairs :
          /\ 0 \in BothThere(p)
          /\ Movements(First(p), 0) = Movements(Second(p), 0)
          /\ Len(extractInitialStroke(Movements(First(p), 0))) = 20
          /\ NonDegenerate(Movements(First(p), 0))
          /\ Entry(p)[0] = 100

\* C4: the similarity of two trajectories, and the DTW distance of their
\* normalised strokes, is the same in either argument order.
C4_Symmetry ==
    step = "done" =>
        /\ similarityAB = similarityBA
        /\ (Len(strokeA) >= 10 /\ Len(strokeB) >= 10) =>
               fastDTW(NormalizedStroke(strokeA), NormalizedStroke(strokeB))
                   = fastDTW(NormalizedStroke(strokeB), NormalizedStroke(strokeA))

\* two different strokes of different lengths, neither alike nor fully unlike
C4_Witness ==
    /\ step = "done"
    /\ Len(strokeA) >= 10
    /\ Len(strokeB) > Len(strokeA)
    /\ similarityAB > 0
    /\ similarityAB < 100 * FP
    /\ similarityAB = similarityBA

\* The timestamp deltas of a trajectory up to its point k are all at most 250 ms
NoPauseUpTo(trajectory, k) ==
    \A i \in 2..k : trajectory[i][3] - trajectory[i - 1][3] <= 250

\* stroke is the longest prefix of trajectory without a delta above 250 ms
IsLongestPausefreePrefix(stroke, trajectory) ==
    /\ Len(stroke) <= Len(trajectory)
    /\ stroke = SubSeq(trajectory, 1, Len(stroke))
    /\ NoPauseUpTo(trajectory, Len(stroke))
    /\ \/ Len(stroke) = Len(trajectory)
       \/ ~NoPauseUpTo(trajectory, Len(stroke) + 1)

\* C5: extractInitialStroke returns the longest prefix of the trajectory in
\* which every consecutive timestamp delta is at most 250 ms; a trajectory of
\* 0 or 1 points is returned unchanged.
C5_StrokeIsLongestPausefreePrefix ==
    step # "start" =>
        /\ IsLongestPausefreePrefix(strokeA, trajA)
        /\ IsLongestPausefreePrefix(strokeB, trajB)
        /\ Len(trajA) < 2 => strokeA = trajA
        /\ Len(trajB) < 2 => strokeB = trajB

\* timestamps 0, 100, 200, 900, 1000 give the first 3 points, and a delta of
\* exactly 250 ms does not cut
C5_Witness ==
    /\ step = "extracted"
    /\ [k \in 1..Len(trajA) |-> trajA[k][3]] = <<0, 100, 200, 900, 1000>>
    /\ strokeA = SubSeq(trajA, 1, 3)
    /\ \E i \in 2..Len(trajB) : trajB[i][3] - trajB[i - 1][3] = 250
    /\ strokeB = trajB
    /\ Len(trajB) > 2

\* The sessions in the opposite order
Reversed(results) == [k \in 1..Len(results) |-> results[Len(results) + 1 - k]]

\* C6 (as claimed): the pair key is canonical, the analysis of the same
\* sessions passed in the opposite order produces the same keys.
C6_KeyIsCanonical ==
    Returned =>
        DOMAIN analysisData =
            {PairKey(Reversed(selectedResults)[p[1]], Reversed(selectedResults)[p[2]]) :
                p \in ComparedPairs(Reversed(selectedResults))}

\* C6 (amended): the key of a pair is the session id of the session passed
\* first, "_vs_", and the id of the one passed second; within one call a pair
\* of sessions never has two entries, one under each order of its ids.
C6_KeyFollowsArgumentOrder ==
    Returned =>
        /\ DOMAIN analysisData = {KeyText(First(p), Second(p)) : p \in SameTestPairs}
        /\ \A p \in SessionPairs :
              ~(/\ KeyText(First(p), Second(p)) \in DOMAIN analysisData
                /\ KeyText(Second(p), First(p)) \in DOMAIN analysisData)

C6_Witness ==
    /\ Returned
    /\ \E p \in SameTestPairs :
          /\ First(p).sessionId = "s2"
          /\ Second(p).sessionId = "s1"
          /\ "s2_vs_s1" \in DOMAIN analysisData
          /\ "s1_vs_s2" \notin DOMAIN analysisData

\* C7: a pair of sessions with different test types is skipped: no question
\* index of the pair receives a score, whatever the trajectories are.
C7_DifferentTestTypeSkipped ==
    Returned =>
        \A p \in SessionPairs :
            First(p).testType # Second(p).testType =>
                /\ \A key \in {KeyText(First(p), Second(p)), KeyText(Second(p), First(p))} :
                      key \in DOMAIN analysisData => DOMAIN analysisData[key] = {}
                /\ \A q \in Shared(p) : ReturnedFor(p, q) = {}

\* two sessions of different tests with comparable trajectories, next to a
\* pair that is scored
C7_Witness ==
    /\ Returned
    /\ \E p \in SessionPairs :
          /\ First(p).testType # Second(p).testType
          /\ BothThere(p) # {}
          /\ KeyText(First(p), Second(p)) \notin DOMAIN analysisData
    /\ AllEntries # {}

\* C8 (as claimed): a question on which the mouseMovements of either session
\* is absent or an empty sequence gets no entry.
C8_AbsentOrEmptySkipped ==
    Returned =>
        \A p \in SameTestPairs : \A q \in Shared(p) :
            (\/ ~HasMovements(First(p), q)
             \/ ~HasMovements(Second(p), q)
             \/ Movements(First(p), q) = <<>>
             \/ Movements(Second(p), q) = <<>>)
            => q \notin DOMAIN Entry(p)

\* C9: every pair of sessions with equal test type has its key in the result,
\* also when no question of it is scored, and the indices stored for it are
\* below the number of questions of either session.
C9_SameTestPairsPresent ==
    Returned =>
        \A p \in SameTestPairs :
            /\ KeyText(First(p), Second(p)) \in DOMAIN analysisData
            /\ DOMAIN Entry(p) \subseteq
                   0..(Min2(Len(PerQuestion(First(p))), Len(PerQuestion(Second(p)))) - 1)

\* a pair with no comparable question and an empty map, next to a pair with
\* questions scored
C9_Witness ==
    /\ Returned
    /\ \E p \in SameTestPairs : Shared(p) = {} /\ DOMAIN Entry(p) = {}
    /\ \E p \in SameTestPairs : Shared(p) # {} /\ DOMAIN Entry(p) # {}

\* The members of a group
Members(hash) ==
    {fingerprintGroups[hash].results[k] :
        k \in 1..Len(fingerprintGroups[hash].results)}

\* The key of the active identity-key policy: the test type, with the client
\* IP when the setting says so
PolicyKey(r) ==
    IF settings.checkIpInFingerprint THEN <<r.clientIp, r.testType>> ELSE <<r.testType>>

\* C10 (as claimed): after analyzeFingerprints a group is anomalous iff some
\* sub-bucket of its members holds two or more distinct normalized identities.
C10_AnomalousIffTwoIdentities ==
    lastOp = "analyzeFingerprints" =>
        \A hash \in DOMAIN fingerprintGroups :
            fingerprintGroups[hash].isAnomalous <=>
                \E a, b \in Members(hash) :
                    PolicyKey(a) = PolicyKey(b) /\ UserName(a) # UserName(b)

\* C10 (amended): after analyzeFingerprints a group is anomalous iff some
\* sub-bucket of its members holds two or more distinct non-empty normalized
\* identities; a member whose normalized name is empty counts for nothing.
C10_AnomalousIffTwoNonEmptyIdentities ==
    lastOp = "analyzeFingerprints" =>
        \A hash \in DOMAIN fingerprintGroups :
            fingerprintGroups[hash].isAnomalous <=>
                \E a, b \in Members(hash) :
                    /\ PolicyKey(a) = PolicyKey(b)
                    /\ UserName(a) # UserName(b)
                    /\ UserName(a) # <<>>
                    /\ UserName(b) # <<>>

\* an anomalous group next to a group of several members, one of them
\* without a name, that is not anomalous
C10_Witness ==
    /\ lastOp = "analyzeFingerprints"
    /\ \E hash \in DOMAIN fingerprintGroups : fingerprintGroups[hash].isAnomalous
    /\ \E hash \in DOMAIN fingerprintGroups :
          /\ ~fingerprintGroups[hash].isAnomalous
          /\ Cardinality(Members(hash)) > 1
          /\ \E a \in Members(hash) : UserName(a) = <<>>

Analyzed == lastOp = "analyzeFingerprints"

\* The cached results whose fingerprint hash is hash
CachedWith(hash) ==
    {k \in 1..Len(allLoadedResults) : getFingerprintHash(allLoadedResults[k]) = hash}

\* C11: a fingerprint group with exactly one member is not anomalous, and a
\* hash that only one cached result has still gets its group of one.
C11_SingletonKeptNotAnomalous ==
    Analyzed =>
        /\ \A hash \in DOMAIN fingerprintGroups :
              Len(fingerprintGroups[hash].results) = 1 =>
                  ~fingerprintGroups[hash].isAnomalous
        /\ \A k \in 1..Len(allLoadedResults) :
              LET hash == getFingerprintHash(allLoadedResults[k])
              IN  (hash # "unknown" /\ Cardinality(CachedWith(hash)) = 1) =>
                      /\ hash \in DOMAIN fingerprintGroups
                      /\ Len(fingerprintGroups[hash].results) = 1
                      /\ fingerprintGroups[hash].results[1].sessionId
                             = allLoadedResults[k].sessionId

\* a group of one next to an anomalous group of several
C11_Witness ==
    /\ Analyzed
    /\ \E hash \in DOMAIN fingerprintGroups :
          /\ Len(fingerprintGroups[hash].results) = 1
          /\ ~fingerprintGroups[hash].isAnomalous
    /\ \E hash \in DOMAIN fingerprintGroups :
          /\ Len(fingerprintGroups[hash].results) > 1
          /\ fingerprintGroups[hash].isAnomalous

\* The groups of exactly two members with distinct, non-empty identities
PairGroups ==
    {hash \in DOMAIN fingerprintGroups :
        /\ Len(fingerprintGroups[hash].results) = 2
        /\ UserName(fingerprintGroups[hash].results[1]) # <<>>
        /\ UserName(fingerprintGroups[hash].results[2]) # <<>>
        /\ UserName(fingerprintGroups[hash].results[1])
               # UserName(fingerprintGroups[hash].results[2])}
SameTest(hash) ==
    fingerprintGroups[hash].results[1].testType
        = fingerprintGroups[hash].results[2].testType
SameIp(hash) ==
    fingerprintGroups[hash].results[1].clientIp
        = fingerprintGroups[hash].results[2].clientIp

C13_NoHashNoGroup ==
    Analyzed =>
        \A hash \in DOMAIN fingerprintGroups :
            \A k \in 1..Len(fingerprintGroups[hash].results) :
                fingerprintGroups[hash].results[k].privacySafeHash \notin {"", "unknown"}

\* C14 (as claimed): analyzeFingerprints leaves every field of every session
\* record it reads as it was, the set of fields a record has included.
C14_GrouperLeavesRecordsAlone ==
    [][lastOp' = "analyzeFingerprints" =>
          /\ allLoadedResults' = allLoadedResults
          /\ currentPageResults' = currentPageResults]_vars

\* C15 (as claimed): analyzeFingerprints called again on the sessions it was
\* called on before (the cache it finds is the one it left) returns the groups
\* and flags it returned then, whatever was done to the settings in between.
C15_SameSessionsSameGroups ==
    [][(/\ lastOp' = "analyzeFingerprints"
        /\ allLoadedResults # <<>>
        /\ allLoadedResults' = allLoadedResults)
       => fingerprintGroups' = fingerprintGroups]_vars

\* The scoring got as far as running the DTW on the two strokes
DtwRan ==
    /\ step \in {"normalized", "comparedAB", "done"}
    /\ Len(strokeA) >= MIN_STROKE_POINTS
    /\ Len(strokeB) >= MIN_STROKE_POINTS

\* A maximum number of points per stroke, set below what a trajectory can have
MaxStrokePoints == MaxLen - 1

\* C16 (as claimed): the strokes the DTW runs on are never longer than the
\* configured maximum: a longer stroke was truncated, or the comparison was
\* rejected, before.
C16_DtwInputCapped ==
    DtwRan => Len(normA) <= MaxStrokePoints /\ Len(normB) <= MaxStrokePoints

\* The timestamps of a trajectory never go back
NonDecreasing(trajectory) ==
    \A i \in 2..Len(trajectory) : trajectory[i][3] >= trajectory[i - 1][3]

\* C17 (as claimed): from a trajectory whose timestamps are not non-decreasing
\* no stroke is extracted and no similarity is computed.
C17_BackwardsClockRejected ==
    (~NonDecreasing(trajA) \/ ~NonDecreasing(trajB)) =>
        /\ strokeA = <<>>
        /\ strokeB = <<>>
        /\ similarityAB = -1
        /\ similarityBA = -1

\* The values a stroke takes on axis a (1: x, 2: y), the least and the
\* greatest of them, and the extent of the bounding box on that axis
AxisValues(stroke, a) == {stroke[k][a] : k \in 1..Len(stroke)}
Least(stroke, a) == CHOOSE v \in AxisValues(stroke, a) : \A w \in AxisValues(stroke, a) : v <= w
Greatest(stroke, a) == CHOOSE v \in AxisValues(stroke, a) : \A w \in AxisValues(stroke, a) : v >= w
Extent(stroke, a) == Greatest(stroke, a) - Least(stroke, a)

\* norm[k][a] is 1000 * (stroke[k][a] - min) / divisor, to the fixed-point step
ScaledBy(norm, stroke, a, divisor) ==
    /\ Len(norm) = Len(stroke)
    /\ \A k \in 1..Len(stroke) :
          /\ norm[k][a] * divisor <= 1000 * FP * (stroke[k][a] - Least(stroke, a))
          /\ 1000 * FP * (stroke[k][a] - Least(stroke, a)) < (norm[k][a] + 1) * divisor

\* Coordinates in [0, 1000], the least value of the axis at 0, an axis
\* without extent at 0 throughout
InSquare(norm, stroke, a) ==
    /\ \A k \in 1..Len(norm) : norm[k][a] >= 0 /\ norm[k][a] <= 1000 * FP
    /\ \A k \in 1..Len(norm) : stroke[k][a] = Least(stroke, a) => norm[k][a] = 0
    /\ Extent(stroke, a) = 0 => \A k \in 1..Len(norm) : norm[k][a] = 0

Normalized == step \in {"normalized", "comparedAB", "done"} /\ normA # <<>>

\* C20 (as claimed): normalisation maps x to 1000 * (x - minX) divided by the
\* greater of maxX - minX and 1, and y likewise; the coordinates are in
\* [0, 1000], the least of an axis is 0, an axis without extent is all 0.
C20_ScaledByExtentOrOneIfLarger ==
    Normalized =>
        \A a \in {1, 2} :
            /\ ScaledBy(normA, strokeA, a, Max2(Extent(strokeA, a), CoordScale))
            /\ ScaledBy(normB, strokeB, a, Max2(Extent(strokeB, a), CoordScale))
            /\ InSquare(normA, strokeA, a)
            /\ InSquare(normB, strokeB, a)

\* C20 (amended): normalisation maps x to 1000 * (x - minX) divided by
\* maxX - minX, or by 1 when maxX - minX is 0, and y likewise: an extent
\* below 1 is stretched to the full side like any other.  The coordinates are
\* in [0, 1000], the least of an axis is 0 and, when the axis has an extent,
\* the greatest is 1000; an axis without extent is all 0.
C20_ScaledByExtentOrOneIfZero ==
    Normalized =>
        \A a \in {1, 2} :
            /\ ScaledBy(normA, strokeA, a,
                        IF Extent(strokeA, a) = 0 THEN CoordScale ELSE Extent(strokeA, a))
            /\ ScaledBy(normB, strokeB, a,
                        IF Extent(strokeB, a) = 0 THEN CoordScale ELSE Extent(strokeB, a))
            /\ InSquare(normA, strokeA, a)
            /\ InSquare(normB, strokeB, a)
            /\ Extent(strokeA, a) # 0 =>
                   \A k \in 1..Len(normA) :
                       strokeA[k][a] = Greatest(strokeA, a) => normA[k][a] = 1000 * FP

\* a stroke without extent in y next to one whose extent in x is under a pixel
C20_Witness ==
    /\ step = "normalized"
    /\ Extent(strokeA, 1) > CoordScale
    /\ Extent(strokeA, 2) = 0
    /\ \A k \in 1..Len(normA) : normA[k][2] = 0
    /\ Extent(strokeB, 1) > 0
    /\ Extent(strokeB, 1) < CoordScale
    /\ \E k \in 1..Len(normB) : normB[k][1] = 1000 * FP

\* boosted is what the boost makes of the similarity s: s itself up to 80,
\* 80 + (s - 80) * 1.5 above (to the fixed-point step), and at most 100
BoostedAs(s, boosted) ==
    IF s <= 80 * FP THEN boosted = s
    ELSE IF 2 * 80 * FP + 3 * (s - 80 * FP) >= 2 * 100 * FP THEN boosted = 100 * FP
    ELSE /\ 2 * (boosted - 80 * FP) <= 3 * (s - 80 * FP)
         /\ 3 * (s - 80 * FP) < 2 * (boosted - 80 * FP) + 2

\* C19: a similarity above 80 becomes 80 + (s - 80) * 1.5 clamped to 100, one
\* of at most 80 is left as it is; of two similarities s1 < s2 above 80 the
\* boosted values are in the same order, strictly when the second is below 100.
C19_ContrastBoost ==
    bstep = "done" =>
        /\ BoostedAs(similarity1, boosted1)
        /\ BoostedAs(similarity2, boosted2)
        /\ (similarity1 > 80 * FP /\ similarity1 < similarity2) =>
               /\ boosted1 <= boosted2
               /\ boosted2 < 100 * FP => boosted1 < boosted2

\* two similarities above 80, the first boosted and below 100, the second clamped
C19_Witness ==
    /\ bstep = "done"
    /\ similarity1 > 80 * FP
    /\ similarity1 < similarity2
    /\ boosted1 > similarity1
    /\ boosted1 < 100 * FP
    /\ similarity2 < 100 * FP
    /\ boosted2 = 100 * FP

\* C18: the analysis never ends in an error.  Sessions of different tests
\* leave no scored question; a question for which either session has no
\* entry or no movements is left out; a question with an empty or too short
\* stroke on either side is left out or scored 0.
C18_IncomparableNeverThrows ==
    /\ pc \in {"called", "waiting", "returned"}
    /\ Returned =>
          /\ \A p \in SessionPairs \ SameTestPairs :
                KeyText(First(p), Second(p)) \notin DOMAIN analysisData
          /\ \A p \in SameTestPairs : \A q \in Shared(p) \ BothThere(p) :
                q \notin DOMAIN Entry(p)
          /\ \A p \in SameTestPairs : \A q \in BothThere(p) :
                (\/ Len(extractInitialStroke(Movements(First(p), q))) < 10
                 \/ Len(extractInitialStroke(Movements(Second(p), q))) < 10)
                => Entry(p)[q] = 0

\* a session without behavioralMetrics, a question without an entry, an empty
\* and a too short trajectory, all in one analysis that returned
C18_Witness ==
    /\ Returned
    /\ \E p \in SameTestPairs : ~First(p).hasMetrics \/ ~Second(p).hasMetrics
    /\ \E p \in SameTestPairs : \E q \in Shared(p) :
          /\ ~PerQuestion(First(p))[q + 1].isObject \/ ~PerQuestion(Second(p))[q + 1].isObject
          /\ q \notin DOMAIN Entry(p)
    /\ \E p \in SameTestPairs : \E q \in BothThere(p) :
          /\ Movements(First(p), q) = <<>> \/ Movements(Second(p), q) = <<>>
          /\ Entry(p)[q] = 0
    /\ \E p \in SameTestPairs : \E q \in BothThere(p) :
          /\ Len(Movements(First(p), q)) \in 1..9
          /\ Entry(p)[q] = 0

\* C21: a stroke moved by a constant offset, or resized by a positive factor,
\* has the normalised form it had, and the similarity to any other stroke it had.
C21_PositionAndSizeIgnored ==
    /\ mstep \in {"normalized", "compared"} => normMoved = normOriginal
    /\ mstep = "compared" => simMoved = simOriginal

\* a stroke that was really moved or resized, scored neither 0 nor 100
C21_Witness ==
    /\ mstep = "compared"
    /\ moved # original
    /\ \E k \in 1..Len(moved) : moved[k][1] < 0
    /\ normMoved = normOriginal
    /\ simMoved > 0
    /\ simMoved < 100 * FP
    /\ simMoved = simOriginal

\* The monotone warping paths from (1, 1) to (i, j), with steps (1, 0),
\* (0, 1) and (1, 1)
RECURSIVE PathsTo(_, _)
PathsTo(i, j) ==
    IF i = 1 /\ j = 1 THEN {<< <<1, 1>> >>}
    ELSE {Append(path, <<i, j>>) :
             path \in (IF i > 1 THEN PathsTo(i - 1, j) ELSE {})
                      \cup (IF j > 1 THEN PathsTo(i, j - 1) ELSE {})
                      \cup (IF i > 1 /\ j > 1 THEN PathsTo(i - 1, j - 1) ELSE {})}

\* The pointwise costs summed along a path
RECURSIVE PathCost(_)
PathCost(path) ==
    IF path = <<>> THEN 0
    ELSE euclideanDistance(seqA[Head(path)[1]], seqB[Head(path)[2]]) + PathCost(Tail(path))

LeastPathCost ==
    LET costs == {PathCost(path) : path \in PathsTo(Len(seqA), Len(seqB))}
    IN  CHOOSE c \in costs : \A d \in costs : c <= d

\* C22: the distance fastDTW returns is the least summed pointwise cost over
\* all monotone warping paths; it is never negative, and finite when both
\* sequences are non-empty.
C22_DtwIsLeastPathCost ==
    wstep = "done" =>
        /\ dtwAB >= 0
        /\ (seqA # <<>> /\ seqB # <<>>) => dtwAB < Infinity
        /\ (seqA # <<>> /\ seqB # <<>> /\ Len(seqA) <= MaxSeq /\ Len(seqB) <= MaxSeq) =>
               dtwAB = LeastPathCost

\* sequences of different lengths whose cheapest path is neither free nor the
\* dearest
C22_Witness ==
    /\ wstep = "done"
    /\ Len(seqA) = 2
    /\ Len(seqB) = MaxSeq
    /\ dtwAB = LeastPathCost
    /\ dtwAB > 0
    /\ \E path \in PathsTo(Len(seqA), Len(seqB)) : PathCost(path) > dtwAB

\* C27: for two normalised sequences of 10 or more points the distance is at
\* most the greatest pointwise cost of the square times the greater length, so
\* the similarity before the boost is not negative and Math.max(0, ...)
\* leaves it as it is.
C27_DistanceWithinMaximum ==
    (wstep = "done" /\ Len(seqA) >= 10 /\ Len(seqB) >= 10) =>
        /\ dtwAB >= 0
        /\ dtwAB <= MathSqrt(2 * 1000 * 1000 * FP * FP) * Max2(Len(seqA), Len(seqB))
        /\ rawSimilarity(dtwAB, Len(seqA), Len(seqB)) >= 0
        /\ Max2(0, rawSimilarity(dtwAB, Len(seqA), Len(seqB)))
               = rawSimilarity(dtwAB, Len(seqA), Len(seqB))

\* two normalised strokes of different lengths far from one another
C27_Witness ==
    /\ wstep = "done"
    /\ Len(seqA) = 10
    /\ Len(seqB) > 10
    /\ rawSimilarity(dtwAB, Len(seqA), Len(seqB)) < 60 * FP
    /\ rawSimilarity(dtwAB, Len(seqA), Len(seqB)) >= 0

\* The card of a pair in the report shown, if it has one
CardsFor(pairKey) == {card \in cards : card.pairKey = pairKey}

\* A report is on screen
Rendered == rlast = "renderDtwResults"

\* Some question score of the pair reaches the threshold
ReachesThreshold(pairKey, threshold) ==
    \E q \in DOMAIN dtwResults[pairKey] : dtwResults[pairKey][q] >= threshold

\* C23 (as the specification states it): every rendered DTW report marks a
\* pair anomalous exactly when some question score of the pair is at or above
\* the mouseThreshold the operator saved last.
C23_FlaggedByThresholdInForce ==
    Rendered =>
        \A pairKey \in DOMAIN dtwResults :
            (\E card \in CardsFor(pairKey) : card.isAnomalous)
                <=> ReachesThreshold(pairKey, mouseThreshold)

\* C24: a pair whose question map is empty gets no card in the rendered report
\* (so no average is shown for it), and a report for at least one pair, all of
\* them with an empty question map, shows the no-common-questions message.
C24_EmptyMapNoCard ==
    Rendered =>
        /\ \A pairKey \in DOMAIN dtwResults :
            DOMAIN dtwResults[pairKey] = {} => CardsFor(pairKey) = {}
        /\ \A card \in cards : card.avgSim >= 0
        /\ (/\ DOMAIN dtwResults # {}
            /\ \A pairKey \in DOMAIN dtwResults : DOMAIN dtwResults[pairKey] = {})
            => (cards = {} /\ containerText = "noCommonQuestions")

\* A report of two pairs, both with an empty question map
C24_Witness ==
    /\ Rendered
    /\ DOMAIN dtwResults = ReportKeys
    /\ DOMAIN dtwResults["s1_vs_s2"] = {}
    /\ DOMAIN dtwResults["s1_vs_s3"] = {}
    /\ containerText = "noCommonQuestions"


\* The sessions the cache holds
CachedSessions(map) == {map[k].sessionId : k \in 1..Len(map)}

\* C25 (as the specification states it): the cache only grows; a session that
\* an earlier setCurrentPageResults call put into allLoadedResults is still
\* there after every later call.
C25_CacheKeepsDeliveredSessions ==
    [][CachedSessions(allLoadedResults) \subseteq CachedSessions(allLoadedResults')]_vars


\* The timeouts safeFetch has awaited when n attempts have failed
WaitsAfter(n) == SubSeq(<<1000, 2000>>, 1, Min2(n, 2))

\* safeFetch has settled
Settled == settled.kind # "pending"

\* C26: safeFetch calls fetch at most three times; it has waited 1 s after the
\* first failure and 2 s after the second and nothing after the third; an
\* attempt with an ok response (and a JSON body) ends it with that body after
\* as many fetches as failures plus one; three failures reject it with the
\* error of the third; no fetch follows once it has settled; and the caller
\* returns the body, or null when safeFetch threw.
C26_RetriesThenThrowsLast ==
    /\ [](fetches <= 3)
    /\ [](waited = WaitsAfter(IF qpc = "timeout" THEN Len(fetchErrors) - 1
                              ELSE Len(fetchErrors)))
    /\ []((settled.kind = "fulfilled") =>
            (settled.value \in Bodies /\ fetches = Len(fetchErrors) + 1))
    /\ []((Len(fetchErrors) = 3) =>
            (settled = [kind |-> "rejected", value |-> fetchErrors[3]]))
    /\ []((settled.kind = "rejected" /\ settled.value \in AttemptErrors) =>
            (fetches = 3 /\ Len(fetchErrors) = 3))
    /\ [][Settled => (fetches' = fetches /\ waited' = waited /\ settled' = settled)]_vars
    /\ []((qpc = "done") =>
            (callerResult = IF settled.kind = "fulfilled"
                            THEN [kind |-> "data", value |-> settled.value]
                            ELSE [kind |-> "null"]))

\* Three attempts failed, with 1 s and 2 s between them, and the caller
\* returned null
C26_Witness ==
    /\ qpc = "done"
    /\ fetches = 3
    /\ waited = <<1000, 2000>>
    /\ Len(fetchErrors) = 3
    /\ fetchErrors[1] # fetchErrors[3]
    /\ settled = [kind |-> "rejected", value |-> fetchErrors[3]]
    /\ callerResult = [kind |-> "null"]


\* The groups analyzeFingerprints would build from the cache under a policy
GroupsUnder(checkIpInFingerprint) ==
    NewFingerprintGroups(allLoadedResults, checkIpInFingerprint)

\* C28: a fingerprint group that is anomalous with the client IP in the key
\* (checkIpInFingerprint true) is anomalous with the test type alone as the
\* key (checkIpInFingerprint false), for the same cached sessions.
C28_IpKeyOnlyRemovesAnomalies ==
    Analyzed =>
        /\ \A hash \in DOMAIN GroupsUnder(TRUE) :
              GroupsUnder(TRUE)[hash].isAnomalous => GroupsUnder(FALSE)[hash].isAnomalous
        /\ settings.checkIpInFingerprint =>
              \A hash \in DOMAIN fingerprintGroups :
                  fingerprintGroups[hash].isAnomalous => GroupsUnder(FALSE)[hash].isAnomalous

\* Analysed with the IP in the key: one group is anomalous, and so it is
\* without the IP; another is anomalous only without the IP
C28_Witness ==
    /\ Analyzed
    /\ settings.checkIpInFingerprint
    /\ \E hash \in DOMAIN fingerprintGroups :
          fingerprintGroups[hash].isAnomalous /\ GroupsUnder(FALSE)[hash].isAnomalous
    /\ \E hash \in DOMAIN fingerprintGroups :
          ~fingerprintGroups[hash].isAnomalous /\ GroupsUnder(FALSE)[hash].isAnomalous


\* Where in the groups a session is: the pairs of a hash and a position
PlacesOf(sessionId) ==
    {place \in UNION {{<<hash, k>> : k \in 1..Len(fingerprintGroups[hash].results)} :
                        hash \in DOMAIN fingerprintGroups} :
        fingerprintGroups[place[1]].results[place[2]].sessionId = sessionId}

\* C29: after analyzeFingerprints every cached session whose hash is known is
\* at exactly one place of the groups, in the group keyed by its own hash; a
\* cached session whose hash is unknown is in none; every member of a group
\* is a cached session; and no group is empty.
C29_GroupsPartitionKnownHashes ==
    Analyzed =>
        /\ \A k \in 1..Len(allLoadedResults) :
              LET result == allLoadedResults[k]
                  hash == getFingerprintHash(result)
              IN  IF hash = "unknown" THEN PlacesOf(result.sessionId) = {}
                  ELSE /\ Cardinality(PlacesOf(result.sessionId)) = 1
                       /\ \A place \in PlacesOf(result.sessionId) : place[1] = hash
        /\ \A hash \in DOMAIN fingerprintGroups :
              /\ Len(fingerprintGroups[hash].results) >= 1
              /\ \A member \in Members(hash) :
                    \E k \in 1..Len(allLoadedResults) : allLoadedResults[k] = member

\* Two groups, one of several sessions and one keyed by a WebGL renderer,
\* next to a cached session whose hash is unknown
C29_Witness ==
    /\ Analyzed
    /\ \E hash \in DOMAIN fingerprintGroups : Len(fingerprintGroups[hash].results) > 1
    /\ \E hash \in DOMAIN fingerprintGroups :
          \E member \in Members(hash) : member.privacySafeHash = ""
    /\ \E k \in 1..Len(allLoadedResults) :
          getFingerprintHash(allLoadedResults[k]) = "unknown"


\* Every call of loadInitialData made so far got its response
AllLoaded ==
    /\ requests # <<>>
    /\ \A i \in 1..Len(requests) : requests[i].state = "done"

\* The page asked for last
LastRequested == requests[Len(requests)].page

\* C30 (as the specification states it): once every overlapping call of
\* loadInitialData has got its response, currentPage, currentPageResults and
\* allLoadedResults are those of the page requested last, in whatever order
\* the responses arrived.
C30_LastRequestedPageWins ==
    AllLoaded =>
        /\ currentPage = LastRequested
        /\ currentPageResults = PageOf(serverResults, LastRequested)
        /\ allLoadedResults = SetAll(<<>>, PageOf(serverResults, LastRequested))

====
